---- MODULE Spec2Model ----
(***************************************************************************)
(* SC-Scanner.py: a coordinator reads a list of repository URLs, submits   *)
(* one clone_and_scan task per URL to a thread pool, collects the tasks'   *)
(* ScanResults into global_report as they complete and renders the report. *)
(*                                                                         *)
(* Python values are tagged records (None, str, int, list, dict) so that   *)
(* truthiness, len(), ==, .get() and iteration behave as in Python; a dict *)
(* is a sequence of key/value pairs in insertion order.  Text (the input   *)
(* file, a subprocess's stdout, messages) is a TLA+ string and strip(),    *)
(* split() and the f-strings are computed on it.                           *)
(***************************************************************************)
EXTENDS Integers, Sequences, FiniteSets, TLC

VARIABLES
    installed,      \* the tool executables shutil.which() resolves
    file_lines,     \* the lines of the input file, as written (no newline)
    mainpc,         \* position of main()
    repos,          \* main's list of URLs
    tasks,          \* the submitted futures, in submission order
    global_report,  \* main's dict: URL -> ScanResult
    printed         \* what main printed: the diagnostic or the report body

vars == <<installed, file_lines, mainpc, repos, tasks, global_report, printed>>

-----------------------------------------------------------------------------
(* Bounds of the model. *)

\* lines in the input file
MaxLines == 2

\* lines a subprocess prints (SpecScan)
MaxOutLines == 2

-----------------------------------------------------------------------------
(* Python values. *)

None == [t |-> "None"]

PyStr(s) == [t |-> "str", s |-> s]

PyInt(n) == [t |-> "int", n |-> n]

PyList(xs) == [t |-> "list", items |-> xs]

\* kv: a sequence of [k |-> key string, v |-> value], keys distinct
PyDict(kv) == [t |-> "dict", kv |-> kv]

Pair(k, v) == [k |-> k, v |-> v]

\* bool(v)
Truthy(v) ==
    CASE v.t = "None" -> FALSE
      [] v.t = "str"  -> v.s # ""
      [] v.t = "int"  -> v.n # 0
      [] v.t = "list" -> v.items # <<>>
      [] v.t = "dict" -> v.kv # <<>>

\* an operator's outcome: a returned value or a raised exception
Return(v) == [raised |-> FALSE, val |-> v]

\* type: the exception's class, msg: its str()
Raise(type, msg) == [raised |-> TRUE, type |-> type, msg |-> msg]

\* len(v): defined for str, list and dict, TypeError for the rest
PyLen(v) ==
    CASE v.t = "str"  -> Return(Len(v.s))
      [] v.t = "list" -> Return(Len(v.items))
      [] v.t = "dict" -> Return(Len(v.kv))
      [] v.t = "int"  -> Raise("TypeError", "object of type 'int' has no len()")
      [] v.t = "None" -> Raise("TypeError", "object of type 'NoneType' has no len()")

\* the pairs of a dict stored under key k
DictHits(kv, k) == SelectSeq(kv, LAMBDA p : p.k = k)

DictHas(kv, k) == DictHits(kv, k) # <<>>

\* d.get(k, default) on the pairs of a dict
DictGet(kv, k, default) ==
    IF DictHas(kv, k) THEN DictHits(kv, k)[1].v ELSE default

\* d[k] = v: an existing key keeps its position, a new key goes last
DictSet(kv, k, v) ==
    IF DictHas(kv, k)
    THEN [i \in 1..Len(kv) |-> IF kv[i].k = k THEN Pair(k, v) ELSE kv[i]]
    ELSE Append(kv, Pair(k, v))

DictKeys(kv) == {kv[i].k : i \in 1..Len(kv)}

\* v.get(k, default): AttributeError unless v is a dict
PyGet(v, k, default) ==
    IF v.t = "dict"
    THEN Return(DictGet(v.kv, k, default))
    ELSE Raise("AttributeError", "'" \o v.t \o "' object has no attribute 'get'")

\* v[k] on a dict: KeyError (whose str() is the key's repr) when k is missing
PyItem(v, k) ==
    IF DictHas(v.kv, k)
    THEN Return(DictGet(v.kv, k, None))
    ELSE Raise("KeyError", "'" \o k \o "'")

-----------------------------------------------------------------------------
(* Text. *)

Whitespace == {" ", "\t", "\n", "\r"}

RECURSIVE LStrip(_)
LStrip(s) ==
    IF Len(s) = 0 THEN s
    ELSE IF SubSeq(s, 1, 1) \in Whitespace THEN LStrip(SubSeq(s, 2, Len(s)))
    ELSE s

RECURSIVE RStrip(_)
RStrip(s) ==
    IF Len(s) = 0 THEN s
    ELSE IF SubSeq(s, Len(s), Len(s)) \in Whitespace
         THEN RStrip(SubSeq(s, 1, Len(s) - 1))
    ELSE s

\* str.strip()
Strip(s) == RStrip(LStrip(s))

RECURSIVE SplitFrom(_, _, _, _)
SplitFrom(s, sep, i, start) ==
    IF i > Len(s) THEN <<SubSeq(s, start, Len(s))>>
    ELSE IF SubSeq(s, i, i) = sep
         THEN <<SubSeq(s, start, i - 1)>> \o SplitFrom(s, sep, i + 1, i + 1)
    ELSE SplitFrom(s, sep, i + 1, start)

\* str.split(sep) for a one-character separator
Split(s, sep) == SplitFrom(s, sep, 1, 1)

RECURSIVE Join(_, _)
\* sep.join(parts)
Join(sep, parts) ==
    IF parts = <<>> THEN ""
    ELSE IF Len(parts) = 1 THEN parts[1]
    ELSE parts[1] \o sep \o Join(sep, Tail(parts))

RECURSIVE Terminated(_)
\* the text of a file or a pipe whose lines each end with a newline
Terminated(lines) ==
    IF lines = <<>> THEN "" ELSE lines[1] \o "\n" \o Terminated(Tail(lines))

-----------------------------------------------------------------------------
(* The tool registry and the external world. *)

\* TOOLS, in declaration order (a dict keeps insertion order)
TOOLS ==
    << [name |-> "trufflehog", timeout |-> 3600, output_key |-> None],
       [name |-> "gitleaks", timeout |-> 600, output_key |-> PyStr("Findings")] >>

ToolNames == {TOOLS[i].name : i \in 1..Len(TOOLS)}

ToolConfig(tool_name) == CHOOSE c \in {TOOLS[i] : i \in 1..Len(TOOLS)} : c.name = tool_name

\* the records the scanners report
GitleaksFinding == PyDict(<<Pair("RuleID", PyStr("X"))>>)

TrufflehogFinding == PyDict(<<Pair("DetectorName", PyStr("AWS"))>>)

\* json.loads on the texts a subprocess prints in this model; any other text
\* is not JSON.  json.loads skips surrounding whitespace itself.
json_loads(text) ==
    LET s == Strip(text) IN
    CASE s = "[]" -> Return(PyList(<<>>))
      [] s = "{\"Findings\": []}" ->
            Return(PyDict(<<Pair("Findings", PyList(<<>>))>>))
      [] s = "{\"Findings\": [{\"RuleID\": \"X\"}]}" ->
            Return(PyDict(<<Pair("Findings", PyList(<<GitleaksFinding>>))>>))
      [] s = "{\"Findings\": 5}" ->
            Return(PyDict(<<Pair("Findings", PyInt(5))>>))
      [] s = "{\"Findings\": \"timeout\"}" ->
            Return(PyDict(<<Pair("Findings", PyStr("timeout"))>>))
      [] s = "{\"DetectorName\": \"AWS\"}" -> Return(TrufflehogFinding)
      [] OTHER -> Raise("JSONDecodeError", "Expecting value")

\* the lines a subprocess may print
OutLines ==
    { "", "[]", "{\"Findings\": []}", "{\"Findings\": [{\"RuleID\": \"X\"}]}",
      "{\"Findings\": 5}", "{\"Findings\": \"timeout\"}",
      "{\"DetectorName\": \"AWS\"}", "oops" }

SeqsUpTo(S, n) == UNION {[1..k -> S] : k \in 0..n}

\* What one subprocess does: it runs for dur seconds and prints lines, or it
\* cannot be run at all (subprocess.run raises something other than
\* TimeoutExpired).  A subprocess that outlives the timeout is killed and
\* what it printed is dropped, so those behaviours print nothing here.
Ran(dur, lines) == [fails |-> FALSE, dur |-> dur, lines |-> lines]

CannotRun == [fails |-> TRUE, dur |-> 0, lines |-> <<>>]

\* the run times just past a configured timeout
Hangs == {TOOLS[i].timeout + 1 : i \in 1..Len(TOOLS)}

\* Every behaviour with at most MaxOutLines printed lines, for either tool:
\* a run that ends at once with any output, a run that lasts just past one of
\* the timeouts, a subprocess that cannot be run.
AllBehaviours ==
    [tool \in ToolNames |->
        {Ran(1, o) : o \in SeqsUpTo(OutLines, MaxOutLines)}
            \cup {Ran(d, <<>>) : d \in Hangs} \cup {CannotRun}]

\* the line with which each tool reports one finding
OneFinding ==
    [trufflehog |-> "{\"DetectorName\": \"AWS\"}",
     gitleaks |-> "{\"Findings\": [{\"RuleID\": \"X\"}]}"]

\* Three behaviours per tool, one for each way an iteration of the loop over
\* TOOLS can end: the tool reports one finding, it outlives its timeout, it
\* cannot be run.
FewBehaviours ==
    [tool \in ToolNames |->
        {Ran(1, <<OneFinding[tool]>>), Ran(ToolConfig(tool).timeout + 1, <<>>), CannotRun}]

-----------------------------------------------------------------------------
(* run_tool *)

\* mutant of subprocess_run: no timeout is passed, a slow subprocess is waited for
subprocess_run_no_timeout(tool_name, b) ==
    IF b.fails THEN Raise("OSError", "cannot run " \o tool_name)
    ELSE Return(Terminated(b.lines))

\* subprocess.run(command, ..., timeout=TOOLS[tool_name]["timeout"]).stdout
subprocess_run(tool_name, b) ==
    IF b.fails THEN Raise("OSError", "cannot run " \o tool_name)
    ELSE IF b.dur > ToolConfig(tool_name).timeout
         THEN Raise("TimeoutExpired", tool_name \o " timed out")
    ELSE Return(Terminated(b.lines))

RECURSIVE DecodeLinesSkipBad(_, _)
\* mutant of DecodeLines: a line that is not JSON is skipped, the others kept
DecodeLinesSkipBad(lines, output) ==
    IF lines = <<>> THEN Return(output)
    ELSE IF Strip(lines[1]) = "" THEN DecodeLinesSkipBad(Tail(lines), output)
    ELSE LET parsed_line == json_loads(lines[1]) IN
         IF parsed_line.raised THEN DecodeLinesSkipBad(Tail(lines), output)
         ELSE DecodeLinesSkipBad(Tail(lines), Append(output, parsed_line.val))

RECURSIVE DecodeLines(_, _)
\* the loop of lines 94-97: json.loads on every non-blank line, appended to
\* output; the first line that is not JSON raises out of the loop
DecodeLines(lines, output) ==
    IF lines = <<>> THEN Return(output)
    ELSE IF Strip(lines[1]) = "" THEN DecodeLines(Tail(lines), output)
    ELSE LET parsed_line == json_loads(lines[1]) IN
         IF parsed_line.raised THEN parsed_line
         ELSE DecodeLines(Tail(lines), Append(output, parsed_line.val))

RECURSIVE WalkKeys(_, _)
\* for key in keys: data = data.get(key, {})
WalkKeys(data, keys) ==
    IF keys = <<>> THEN Return(data)
    ELSE LET next == PyGet(data, keys[1], PyDict(<<>>)) IN
         IF next.raised THEN next ELSE WalkKeys(next.val, Tail(keys))

\* mutant of ExtractFindings: the output key is ignored
ExtractFindingsNoKey(tool_name, output) ==
    Return(IF output # <<>> THEN PyList(output) ELSE None)

\* lines 102-114, given the decoded output list
ExtractFindings(tool_name, output) ==
    LET output_key == ToolConfig(tool_name).output_key IN
    IF Truthy(output_key)
    THEN LET data == IF output # <<>> THEN output[1] ELSE PyDict(<<>>)
             walked == WalkKeys(data, Split(output_key.s, "."))
         IN  IF walked.raised
             THEN (IF walked.type = "AttributeError"
                   THEN Return(PyList(<<>>)) ELSE walked)
             ELSE Return(IF Truthy(walked.val) THEN walked.val ELSE None)
    ELSE Return(IF output # <<>> THEN PyList(output) ELSE None)

\* run_tool(tool_name, command, repo_dir, repo_url), by what the subprocess does
run_tool(tool_name, b) ==
    LET result == subprocess_run(tool_name, b) IN
    IF result.raised
    THEN (IF result.type = "TimeoutExpired" THEN Return(PyStr("timeout")) ELSE result)
    ELSE LET decoded == IF Strip(result.val) # ""
                        THEN DecodeLines(Split(Strip(result.val), "\n"), <<>>)
                        ELSE Return(<<>>)
         IN  IF decoded.raised
             THEN (IF decoded.type = "JSONDecodeError" THEN Return(None) ELSE decoded)
             ELSE ExtractFindings(tool_name, decoded.val)

\* mutant of tool_status: the "timeout" sentinel is not told apart
tool_status_no_sentinel(tool_results) ==
    IF Truthy(tool_results)
    THEN LET n == PyLen(tool_results) IN
         IF n.raised THEN n ELSE Return(PyStr(ToString(n.val) \o " findings"))
    ELSE Return(PyStr("Clean"))

\* lines 57-58: the status string of one tool's results
tool_status(tool_results) ==
    IF tool_results = PyStr("timeout") THEN Return(PyStr("Timed out"))
    ELSE IF Truthy(tool_results)
         THEN LET n == PyLen(tool_results) IN
              IF n.raised THEN n ELSE Return(PyStr(ToString(n.val) \o " findings"))
    ELSE Return(PyStr("Clean"))

-----------------------------------------------------------------------------
(* format_report *)

\* colorama's escape sequences, written as tags
Fore ==
    [RED |-> "<red>", YELLOW |-> "<yellow>", CYAN |-> "<cyan>",
     WHITE |-> "<white>", GREEN |-> "<green>"]

Lower == "abcdefghijklmnopqrstuvwxyz"

Upper == "ABCDEFGHIJKLMNOPQRSTUVWXYZ"

UpperChar(c) ==
    IF \E i \in 1..Len(Lower) : SubSeq(Lower, i, i) = c
    THEN LET i == CHOOSE j \in 1..Len(Lower) : SubSeq(Lower, j, j) = c
         IN  SubSeq(Upper, i, i)
    ELSE c

RECURSIVE PyUpper(_)
\* str.upper()
PyUpper(s) ==
    IF Len(s) = 0 THEN s
    ELSE UpperChar(SubSeq(s, 1, 1)) \o PyUpper(SubSeq(s, 2, Len(s)))

RECURSIVE PyRepr(_)
\* repr(v)
PyRepr(v) ==
    CASE v.t = "None" -> "None"
      [] v.t = "str"  -> "'" \o v.s \o "'"
      [] v.t = "int"  -> ToString(v.n)
      [] v.t = "list" ->
            "[" \o Join(", ", [i \in 1..Len(v.items) |-> PyRepr(v.items[i])]) \o "]"
      [] v.t = "dict" ->
            "{" \o Join(", ", [i \in 1..Len(v.kv) |->
                       "'" \o v.kv[i].k \o "': " \o PyRepr(v.kv[i].v)]) \o "}"

\* str(v), as an f-string formats a value
PyFormat(v) == IF v.t = "str" THEN v.s ELSE PyRepr(v)

\* iter(v): the elements of a list, the keys of a dict, the characters of a
\* str; TypeError for the rest
PyIter(v) ==
    CASE v.t = "list" -> Return(v.items)
      [] v.t = "dict" -> Return([i \in 1..Len(v.kv) |-> PyStr(v.kv[i].k)])
      [] v.t = "str"  -> Return([i \in 1..Len(v.s) |-> PyStr(SubSeq(v.s, i, i))])
      [] v.t = "int"  -> Raise("TypeError", "'int' object is not iterable")
      [] v.t = "None" -> Raise("TypeError", "'NoneType' object is not iterable")

NA == PyStr("N/A")

EmptyDict == PyDict(<<>>)

\* the rest of a block after a call: skipped when the call raised
Then(r, Rest(_)) == IF r.raised THEN r ELSE Rest(r.val)

\* lines 147-150: the three lines of one trufflehog secret
SecretLines(secret) ==
    Then(PyGet(secret, "DetectorName", NA), LAMBDA name :
    Then(PyGet(secret, "SourceMetadata", EmptyDict), LAMBDA source :
    Then(PyGet(source, "Data", EmptyDict), LAMBDA data :
    Then(PyGet(data, "Git", EmptyDict), LAMBDA metadata :
    Then(PyGet(metadata, "file", NA), LAMBDA file :
    Then(PyGet(metadata, "commit", NA), LAMBDA commit :
        Return(<< Fore.RED \o "Secret: " \o PyFormat(name),
                  Fore.WHITE \o "File: " \o PyFormat(file),
                  Fore.WHITE \o "Commit: " \o PyFormat(commit) >>)))))))

\* lines 154-155: the two lines of one gitleaks leak
LeakLines(leak) ==
    Then(PyGet(leak, "RuleID", NA), LAMBDA rule :
    Then(PyGet(leak, "File", NA), LAMBDA file :
    Then(PyGet(leak, "StartLine", NA), LAMBDA line :
        Return(<< Fore.RED \o "Leak: " \o PyFormat(rule),
                  Fore.WHITE \o "File: " \o PyFormat(file) \o ":" \o PyFormat(line) >>))))

RECURSIVE FindingLines(_, _, _)
\* the loops of lines 146-150 and 153-155 over the findings of one tool
FindingLines(tool, items, out) ==
    IF items = <<>> THEN Return(out)
    ELSE Then(IF tool = "trufflehog" THEN SecretLines(items[1]) ELSE LeakLines(items[1]),
              LAMBDA one : FindingLines(tool, Tail(items), out \o one))

\* lines 140-155: the section of one tool; nothing for a tool that has no
\* findings or timed out, and only the title for a tool other than the two
ToolSection(tool, findings) ==
    IF ~Truthy(findings) \/ findings = PyStr("timeout") THEN Return(<<>>)
    ELSE IF tool \in {"trufflehog", "gitleaks"}
         THEN Then(PyIter(findings), LAMBDA items :
                  FindingLines(tool, items,
                      <<Fore.YELLOW \o "\n" \o PyUpper(tool) \o " Findings:">>))
    ELSE Return(<<Fore.YELLOW \o "\n" \o PyUpper(tool) \o " Findings:">>)

RECURSIVE ToolSections(_, _)
\* the loop of line 139 over data['findings'].items()
ToolSections(kv, out) ==
    IF kv = <<>> THEN Return(out)
    ELSE Then(ToolSection(kv[1].k, kv[1].v),
              LAMBDA one : ToolSections(Tail(kv), out \o one))

\* lines 129-136: some tool with a status has findings that are not
\* "timeout"; data['findings'] is read once per tool of data['status']
HasRealFindings(data, status) ==
    IF status.kv = <<>> THEN Return(FALSE)
    ELSE Then(PyItem(data, "findings"), LAMBDA findings :
             Return(\E i \in 1..Len(status.kv) :
                        LET f == DictGet(findings.kv, status.kv[i].k, None)
                        IN  Truthy(f) /\ f # PyStr("timeout")))

\* lines 124-125
ErrorLines(data) ==
    LET error == DictGet(data.kv, "error", None) IN
    IF Truthy(error) THEN <<Fore.RED \o "\nERROR: " \o PyFormat(error)>> ELSE <<>>

\* lines 134-135
HeaderLines(repo_url) ==
    << Fore.CYAN \o "\n" \o repo_url,
       Fore.WHITE \o "--------------------------------------------------" >>

\* lines 121-158 for one repository: the lines it adds to the report and
\* whether it has findings
RepoSection(repo_url, data) ==
    Then(PyItem(data, "status"), LAMBDA status :
    Then(HasRealFindings(data, status), LAMBDA real :
        IF ~(ErrorLines(data) # <<>> \/ real)
        THEN Return([lines |-> <<>>, has |-> FALSE])
        ELSE Then(PyItem(data, "findings"), LAMBDA findings :
             Then(ToolSections(findings.kv,
                      ErrorLines(data) \o (IF real THEN HeaderLines(repo_url) ELSE <<>>)),
                  LAMBDA lines : Return([lines |-> lines, has |-> TRUE])))))

RECURSIVE ReportLines(_, _, _)
\* the loop of line 120 over global_report.items()
ReportLines(kv, report, has_findings) ==
    IF kv = <<>> THEN Return([lines |-> report, has |-> has_findings])
    ELSE Then(RepoSection(kv[1].k, kv[1].v), LAMBDA one :
             ReportLines(Tail(kv), report \o one.lines, has_findings \/ one.has))

NoFindingsMessage == Fore.GREEN \o "\nNo findings across all repositories"

\* format_report(global_report): the report text, or the exception raised
format_report(report) ==
    Then(ReportLines(report.kv, <<>>, FALSE), LAMBDA walked :
        Return(PyStr(IF ~walked.has THEN NoFindingsMessage
                     ELSE Join("\n", walked.lines))))

-----------------------------------------------------------------------------
(* clone_and_scan: one task of the pool *)

\* ThreadPoolExecutor()'s default max_workers is min(32, cpu_count + 4): at
\* least this many tasks run at once
MaxWorkers == 5

\* no subprocess has run yet
NoRun == [fails |-> FALSE, dur |-> 0, lines |-> <<>>]

\* lines 36-40
NewResults ==
    PyDict(<< Pair("findings", PyDict(<<>>)), Pair("status", PyDict(<<>>)),
              Pair("error", None) >>)

\* d[k] = v on a dict value
SetItem(d, k, v) == PyDict(DictSet(d.kv, k, v))

Findings(results) == DictGet(results.kv, "findings", None)

Status(results) == DictGet(results.kv, "status", None)

Error(results) == DictGet(results.kv, "error", None)

\* A future of the pool and the task behind it.
\*   pc        queued | clone | tool | recorded | returned | raised
\*   i         the index in TOOLS of the tool of the current iteration
\*   results   the task's ScanResult
\*   cloned    "" until clone_repo has returned, then "ok" or "failed"
\*   started   the tools whose subprocess this task has started, in order
\*   last      what the subprocess of the current iteration did; it stays
\*             when an exception ends the loop in that iteration
\*   tmp       the number in the name of the task's temporary directory while
\*             it exists, 0 when it does not
\*   exc       str() of the exception that left clone_and_scan
\*   collected as_completed has yielded the future
NewTask(repo_url) ==
    [url |-> repo_url, pc |-> "queued", i |-> 0, results |-> NewResults,
     cloned |-> "", started |-> <<>>, last |-> NoRun, tmp |-> 0,
     exc |-> "", collected |-> FALSE]

Running(t) == tasks[t].pc \in {"clone", "tool", "recorded"}

Finished(t) == tasks[t].pc \in {"returned", "raised"}

\* the temporary directories that exist
TempDirs == {tasks[u].tmp : u \in 1..Len(tasks)} \ {0}

\* line 43, tempfile.TemporaryDirectory(): a new directory under a name that
\* no existing directory has; the names are numbered and the first free one
\* is taken
mkdtemp == CHOOSE n \in 1..(Len(tasks) + 1) :
               /\ n \notin TempDirs
               /\ \A m \in 1..(n - 1) : m \in TempDirs

\* mutant of StartTask: the directory is named after the repository
StartTaskDirByName(t) ==
    /\ tasks[t].pc = "queued"
    /\ Cardinality({u \in 1..Len(tasks) : Running(u)}) < MaxWorkers
    /\ tasks' = [tasks EXCEPT ![t].pc = "clone", ![t].results = NewResults,
                              ![t].tmp = CHOOSE n \in 1..Len(repos) :
                                            /\ repos[n] = tasks[t].url
                                            /\ \A m \in 1..(n - 1) : repos[m] # tasks[t].url]
    /\ UNCHANGED <<installed, file_lines, mainpc, repos, global_report, printed>>

\* mutant of StartTask: the tools are run without waiting for the clone
StartTaskNoClone(t) ==
    /\ tasks[t].pc = "queued"
    /\ Cardinality({u \in 1..Len(tasks) : Running(u)}) < MaxWorkers
    /\ tasks' = [tasks EXCEPT ![t].pc = "tool", ![t].i = 1,
                              ![t].results = NewResults, ![t].tmp = mkdtemp]
    /\ UNCHANGED <<installed, file_lines, mainpc, repos, global_report, printed>>

\* a worker takes the task from the queue: lines 36-43
StartTask(t) ==
    /\ tasks[t].pc = "queued"
    /\ Cardinality({u \in 1..Len(tasks) : Running(u)}) < MaxWorkers
    /\ tasks' = [tasks EXCEPT ![t].pc = "clone", ![t].results = NewResults,
                              ![t].tmp = mkdtemp]
    /\ UNCHANGED <<installed, file_lines, mainpc, repos, global_report, printed>>

\* mutant of CloneFailed: the error is recorded but the early return is missing
CloneFailedNoReturn(task) ==
    [task EXCEPT !.cloned = "failed",
                 !.results = SetItem(@, "error", PyStr("Clone failed: " \o task.url)),
                 !.pc = "tool", !.i = 1]

\* lines 45-47: the task after clone_repo returned None
CloneFailed(task) ==
    [task EXCEPT !.cloned = "failed",
                 !.results = SetItem(@, "error", PyStr("Clone failed: " \o task.url)),
                 !.tmp = 0, !.pc = "returned"]

\* lines 44-47: clone_repo returns the directory, or None after any error of
\* Repo.clone_from
CloneRepo(t) ==
    /\ tasks[t].pc = "clone"
    /\ \E ok \in BOOLEAN :
          tasks' = [tasks EXCEPT ![t] =
                      IF ok THEN [@ EXCEPT !.cloned = "ok", !.pc = "tool", !.i = 1]
                      ELSE CloneFailed(@)]
    /\ UNCHANGED <<installed, file_lines, mainpc, repos, global_report, printed>>

\* lines 60-63: the handler of clone_and_scan; the with block has removed the
\* temporary directory on the way out.  Building the message can itself raise
\* (handled = FALSE): that exception leaves clone_and_scan, whose results are
\* lost, and becomes the future's exception.
Except(task, e, handled) ==
    IF handled
    THEN [task EXCEPT !.results = SetItem(@, "error",
                          PyStr("Error scanning " \o task.url \o ": " \o e.msg)),
                      !.tmp = 0, !.pc = "returned"]
    ELSE [task EXCEPT !.results = NewResults, !.tmp = 0,
                      !.pc = "raised", !.exc = "error in handler"]

\* line 56
RecordFindings(results, tool, tool_results) ==
    SetItem(results, "findings", SetItem(Findings(results), tool, tool_results))

\* lines 57-58, once the status string is built
RecordStatus(results, tool, status) ==
    SetItem(results, "status", SetItem(Status(results), tool, status))

\* mutant of ScanWith: a timeout is raised on to the handler of the task
ScanWithTimeoutRaised(task, b, handled) ==
    LET tool == TOOLS[task.i].name
        run == [task EXCEPT !.started = Append(@, tool), !.last = b]
        tool_results == run_tool(tool, b)
    IN
    IF tool_results.raised THEN Except(run, tool_results, handled)
    ELSE IF tool_results.val = PyStr("timeout")
         THEN Except(run, Raise("TimeoutExpired", tool \o " timed out"), handled)
    ELSE LET found == [run EXCEPT !.results = RecordFindings(@, tool, tool_results.val)]
             status == tool_status(tool_results.val)
         IN  IF status.raised THEN Except(found, status, handled)
             ELSE [found EXCEPT !.results = RecordStatus(@, tool, status.val),
                                !.pc = "recorded"]

\* lines 50-58 and 60-61: one iteration of the loop over TOOLS, for the
\* subprocess behaviour b
ScanWith(task, b, handled) ==
    LET tool == TOOLS[task.i].name
        run == [task EXCEPT !.started = Append(@, tool), !.last = b]
        tool_results == run_tool(tool, b)
    IN
    IF tool_results.raised THEN Except(run, tool_results, handled)
    ELSE LET found == [run EXCEPT !.results = RecordFindings(@, tool, tool_results.val)]
             status == tool_status(tool_results.val)
         IN  IF status.raised THEN Except(found, status, handled)
             ELSE [found EXCEPT !.results = RecordStatus(@, tool, status.val),
                                !.pc = "recorded"]

\* the task runs the tool of the current iteration
RunTool(t, behaviours) ==
    /\ tasks[t].pc = "tool"
    /\ \E b \in behaviours[TOOLS[tasks[t].i].name], handled \in BOOLEAN :
          tasks' = [tasks EXCEPT ![t] = ScanWith(@, b, handled)]
    /\ UNCHANGED <<installed, file_lines, mainpc, repos, global_report, printed>>

\* line 49: the next tool, or the end of the loop, where the temporary
\* directory is removed and results is returned (line 63)
LoopNext(t) ==
    /\ tasks[t].pc = "recorded"
    /\ tasks' = [tasks EXCEPT ![t] =
                   IF @.i < Len(TOOLS)
                   THEN [@ EXCEPT !.i = @ + 1, !.pc = "tool", !.last = NoRun]
                   ELSE [@ EXCEPT !.pc = "returned", !.tmp = 0, !.last = NoRun]]
    /\ UNCHANGED <<installed, file_lines, mainpc, repos, global_report, printed>>

-----------------------------------------------------------------------------
(* main *)

\* the lines an input file may hold
FileLines == {"", "  ", " u1 ", "u2"}

\* lines 29-30
missing_tools ==
    SelectSeq([i \in 1..Len(TOOLS) |-> TOOLS[i].name], LAMBDA tool : tool \notin installed)

\* mutant of CheckTools: the diagnostic is printed but exit(1) is missing
CheckToolsNoExit ==
    /\ mainpc = "check"
    /\ mainpc' = "read"
    /\ printed' = IF missing_tools # <<>>
                  THEN PyStr(Fore.RED \o "Missing tools: " \o Join(", ", missing_tools))
                  ELSE printed
    /\ UNCHANGED <<installed, file_lines, repos, tasks, global_report>>

\* check_tools_installed(): lines 29-33 and 166
CheckTools ==
    /\ mainpc = "check"
    /\ IF missing_tools # <<>>
       THEN /\ printed' = PyStr(Fore.RED \o "Missing tools: " \o Join(", ", missing_tools))
            /\ mainpc' = "exit"
       ELSE /\ mainpc' = "read"
            /\ UNCHANGED printed
    /\ UNCHANGED <<installed, file_lines, repos, tasks, global_report>>

RECURSIVE Unique(_)
\* a list without its repeated elements
Unique(xs) ==
    IF xs = <<>> THEN <<>>
    ELSE <<xs[1]>> \o Unique(SelectSeq(Tail(xs), LAMBDA x : x # xs[1]))

\* mutant of ReadRepos: the URLs are deduplicated
ReadReposUnique(text) ==
    LET lines == Split(text, "\n") IN
    Unique(SelectSeq([i \in 1..Len(lines) |-> Strip(lines[i])], LAMBDA line : line # ""))

\* line 170: [line.strip() for line in f if line.strip()]
ReadRepos(text) ==
    LET lines == Split(text, "\n") IN
    SelectSeq([i \in 1..Len(lines) |-> Strip(lines[i])], LAMBDA line : line # "")

\* lines 167-170
ReadFile ==
    /\ mainpc = "read"
    /\ repos' = ReadRepos(Terminated(file_lines))
    /\ global_report' = PyDict(<<>>)
    /\ mainpc' = "submit"
    /\ UNCHANGED <<installed, file_lines, tasks, printed>>

\* line 173: executor.submit for the next URL, or the end of the comprehension
Submit ==
    /\ mainpc = "submit"
    /\ IF Len(tasks) < Len(repos)
       THEN /\ tasks' = Append(tasks, NewTask(repos[Len(tasks) + 1]))
            /\ UNCHANGED mainpc
       ELSE /\ mainpc' = "collect"
            /\ UNCHANGED tasks
    /\ UNCHANGED <<installed, file_lines, repos, global_report, printed>>

\* lines 176-181: the entry main stores for a completed future
CollectedEntry(task) ==
    IF task.pc = "raised"
    THEN PyDict(<<Pair("error", PyStr(task.exc))>>)
    ELSE task.results

\* mutant of Collect: the dict is rebound instead of updated
CollectRebinds(t) ==
    /\ mainpc = "collect"
    /\ Finished(t)
    /\ ~tasks[t].collected
    /\ global_report' = PyDict(<<Pair(tasks[t].url, CollectedEntry(tasks[t]))>>)
    /\ tasks' = [tasks EXCEPT ![t].collected = TRUE]
    /\ UNCHANGED <<installed, file_lines, mainpc, repos, printed>>

\* mutant of Collect: an entry that exists is kept (setdefault)
CollectKeepsFirst(t) ==
    /\ mainpc = "collect"
    /\ Finished(t)
    /\ ~tasks[t].collected
    /\ global_report' = IF DictHas(global_report.kv, tasks[t].url) THEN global_report
                        ELSE SetItem(global_report, tasks[t].url, CollectedEntry(tasks[t]))
    /\ tasks' = [tasks EXCEPT ![t].collected = TRUE]
    /\ UNCHANGED <<installed, file_lines, mainpc, repos, printed>>

\* mutant of Collect: the future is not waited for
CollectEarly(t) ==
    /\ mainpc = "collect"
    /\ ~tasks[t].collected
    /\ global_report' = SetItem(global_report, tasks[t].url, CollectedEntry(tasks[t]))
    /\ tasks' = [tasks EXCEPT ![t].collected = TRUE]
    /\ UNCHANGED <<installed, file_lines, mainpc, repos, printed>>

\* mutant of Collect: a list of (URL, entry) pairs in completion order
CollectAppends(t) ==
    /\ mainpc = "collect"
    /\ Finished(t)
    /\ ~tasks[t].collected
    /\ global_report' = PyDict(Append(global_report.kv,
                                      Pair(tasks[t].url, CollectedEntry(tasks[t]))))
    /\ tasks' = [tasks EXCEPT ![t].collected = TRUE]
    /\ UNCHANGED <<installed, file_lines, mainpc, repos, printed>>

\* lines 175-181: as_completed yields a finished future not yet yielded
Collect(t) ==
    /\ mainpc = "collect"
    /\ Finished(t)
    /\ ~tasks[t].collected
    /\ global_report' = SetItem(global_report, tasks[t].url, CollectedEntry(tasks[t]))
    /\ tasks' = [tasks EXCEPT ![t].collected = TRUE]
    /\ UNCHANGED <<installed, file_lines, mainpc, repos, printed>>

\* lines 183-184 by what format_report did: the report is printed, or the
\* exception ends main with its traceback
AfterReport(report_body) ==
    IF report_body.raised
    THEN [pc |-> "crashed", out |-> PyStr(report_body.type \o ": " \o report_body.msg)]
    ELSE [pc |-> "done", out |-> report_body.val]

\* lines 183-184, after as_completed is exhausted and the pool is shut down
Report ==
    /\ mainpc = "collect"
    /\ \A t \in 1..Len(tasks) : tasks[t].collected
    /\ LET after == AfterReport(format_report(global_report)) IN
          /\ mainpc' = after.pc
          /\ printed' = after.out
    /\ UNCHANGED <<installed, file_lines, repos, tasks, global_report>>

-----------------------------------------------------------------------------
(* Specifications. *)

TypeOK ==
    /\ installed \subseteq ToolNames
    /\ mainpc \in {"check", "exit", "read", "submit", "collect", "done", "crashed"}
    /\ Len(tasks) <= Len(repos)

InitMain ==
    /\ mainpc = "check"
    /\ repos = <<>>
    /\ tasks = <<>>
    /\ global_report = PyDict(<<>>)
    /\ printed = None

\* any input file of at most MaxLines lines, any set of installed tools
Init ==
    /\ installed \in SUBSET ToolNames
    /\ file_lines \in SeqsUpTo(FileLines, MaxLines)
    /\ InitMain

Next ==
    \/ CheckTools
    \/ ReadFile
    \/ Submit
    \/ \E t \in 1..Len(tasks) : StartTask(t)
    \/ \E t \in 1..Len(tasks) : CloneRepo(t)
    \/ \E t \in 1..Len(tasks) : RunTool(t, FewBehaviours)
    \/ \E t \in 1..Len(tasks) : LoopNext(t)
    \/ \E t \in 1..Len(tasks) : Collect(t)
    \/ Report

\* the whole program, each subprocess behaving in one of FewBehaviours
Spec == Init /\ [][Next]_vars

\* one repository, both tools installed
InitScan ==
    /\ installed = ToolNames
    /\ file_lines = <<" u1 ", "">>
    /\ InitMain

NextScan ==
    \/ CheckTools
    \/ ReadFile
    \/ Submit
    \/ \E t \in 1..Len(tasks) : StartTask(t)
    \/ \E t \in 1..Len(tasks) : CloneRepo(t)
    \/ \E t \in 1..Len(tasks) : RunTool(t, AllBehaviours)
    \/ \E t \in 1..Len(tasks) : LoopNext(t)
    \/ \E t \in 1..Len(tasks) : Collect(t)
    \/ Report

\* the scan of one repository, each subprocess behaving in any of AllBehaviours
SpecScan == InitScan /\ [][NextScan]_vars

-----------------------------------------------------------------------------
(* Vocabulary of the properties. *)

TaskIds == 1..Len(tasks)

\* a key that is not in a dict
Absent == [t |-> "absent"]

\* the tool of the task's current iteration
ToolOf(t) == TOOLS[tasks[t].i].name

\* what the task has recorded for a tool
FindingsOf(t, tool) == DictGet(Findings(tasks[t].results).kv, tool, Absent)

StatusOf(t, tool) == DictGet(Status(tasks[t].results).kv, tool, Absent)

\* the subprocess of the task's current iteration outlived the tool's timeout
TimedOut(t) ==
    /\ tasks[t].i >= 1
    /\ ~tasks[t].last.fails
    /\ tasks[t].last.dur > ToolConfig(ToolOf(t)).timeout

\* it ended in time and printed these lines
Printed(t, lines) ==
    /\ tasks[t].i >= 1
    /\ tasks[t].last = Ran(1, lines)

\* "{count} findings" for some count
IsCount(status) ==
    \E n \in 0..(MaxOutLines + 1) : status = PyStr(ToString(n) \o " findings")

\* as_completed is exhausted: global_report is final
ReportFinal == mainpc \in {"done", "crashed"}

TasksOf(url) == {t \in TaskIds : tasks[t].url = url}

EntriesOf(url) == {i \in 1..Len(global_report.kv) : global_report.kv[i].k = url}

EntryOf(url) == DictGet(global_report.kv, url, Absent)

-----------------------------------------------------------------------------
(* C1 *)

-----------------------------------------------------------------------------
(* C2 *)

\* C2: when the subprocess of a (repository, tool) pair outlives the tool's
\* timeout, run_tool's "timeout" is what the task records as the tool's
\* findings and the status recorded is "Timed out": not "Clean", not a count.
C2_TimeoutStatus ==
    \A t \in TaskIds :
        TimedOut(t) =>
            /\ tasks[t].pc = "recorded"
            /\ FindingsOf(t, ToolOf(t)) = PyStr("timeout")
            /\ StatusOf(t, ToolOf(t)) = PyStr("Timed out")
            /\ StatusOf(t, ToolOf(t)) # PyStr("Clean")
            /\ ~IsCount(StatusOf(t, ToolOf(t)))

\* gitleaks ran 601 s, past its 600 s and within trufflehog's 3600 s
C2_Witness ==
    \E t \in TaskIds :
        /\ tasks[t].i = 2
        /\ tasks[t].last = Ran(601, <<>>)
        /\ tasks[t].pc = "recorded"

-----------------------------------------------------------------------------
(* C3 *)

\* the outputs C3 calls well-formed and empty
EmptyOutputs == {<<>>, <<"[]">>, <<"{\"Findings\": []}">>}

\* C3: for either tool, a subprocess that ends in time and prints nothing, the
\* line [], or an object whose Findings is empty gets the status "Clean",
\* never a "{count} findings" status.
C3_EmptyOutputIsClean ==
    \A t \in TaskIds :
        \A lines \in EmptyOutputs :
            Printed(t, lines) =>
                /\ tasks[t].pc = "recorded"
                /\ StatusOf(t, ToolOf(t)) = PyStr("Clean")

-----------------------------------------------------------------------------
(* C4 *)

\* lines 55-58 for one subprocess behaviour: the (findings, status) pair the
\* task records, or the exception that reaches the handler
RecordedPair(tool, b) ==
    Then(run_tool(tool, b), LAMBDA tool_results :
        Then(tool_status(tool_results), LAMBDA status :
            Return(<<tool_results, status>>)))

\* the pair the task has recorded in the current iteration
PairOf(t) == Return(<<FindingsOf(t, ToolOf(t)), StatusOf(t, ToolOf(t))>>)

\* the pairs a tool records for well-formed empty output
EmptyPairs(tool) == {RecordedPair(tool, Ran(1, lines)) : lines \in EmptyOutputs}

\* stdout has a line that is not JSON
DecodeFails(t) ==
    /\ tasks[t].i >= 1
    /\ tasks[t].last \in {Ran(1, lines) : lines \in SeqsUpTo(OutLines, MaxOutLines)}
    /\ \E n \in 1..Len(tasks[t].last.lines) : tasks[t].last.lines[n] = "oops"

\* C4 as claimed: the pair recorded for a timeout and the pair recorded for a
\* decode failure both differ from every pair recorded for well-formed empty
\* output.
C4_ThreeOutcomesDiffer ==
    \A t \in TaskIds :
        (tasks[t].pc = "recorded" /\ (TimedOut(t) \/ DecodeFails(t))) =>
            PairOf(t) \notin EmptyPairs(ToolOf(t))

\* C4 as the code has it: a timeout records ("timeout", "Timed out"), which is
\* neither a pair of well-formed empty output nor the pair of a decode
\* failure; a decode failure records (None, "Clean"), the very pair recorded
\* for a subprocess that printed nothing.
C4_OnlyTimeoutDiffers ==
    \A t \in TaskIds :
        /\ TimedOut(t) =>
              /\ tasks[t].pc = "recorded"
              /\ PairOf(t) = Return(<<PyStr("timeout"), PyStr("Timed out")>>)
              /\ PairOf(t) \notin EmptyPairs(ToolOf(t))
              /\ PairOf(t) # RecordedPair(ToolOf(t), Ran(1, <<"oops">>))
        /\ DecodeFails(t) =>
              /\ tasks[t].pc = "recorded"
              /\ PairOf(t) = Return(<<None, PyStr("Clean")>>)
              /\ PairOf(t) = RecordedPair(ToolOf(t), Ran(1, <<>>))

\* gitleaks timed out after trufflehog printed a line that is not JSON
C4_Witness ==
    \E t \in TaskIds :
        /\ tasks[t].i = 2
        /\ TimedOut(t)
        /\ tasks[t].pc = "recorded"
        /\ tasks[t].started = <<"trufflehog", "gitleaks">>
        /\ FindingsOf(t, "trufflehog") = None
        /\ StatusOf(t, "trufflehog") = PyStr("Clean")

-----------------------------------------------------------------------------
(* C5 *)

\* line.strip() of each line an input file may hold
Trimmed == [line \in FileLines |->
               CASE line = " u1 " -> "u1"
                 [] line = "u2" -> "u2"
                 [] OTHER -> ""]

\* the non-blank lines, trimmed, in file order, repetitions kept
ExpectedRepos ==
    SelectSeq([n \in 1..Len(file_lines) |-> Trimmed[file_lines[n]]],
              LAMBDA url : url # "")

\* C5: the URLs read are the trimmed non-blank lines of the file, in order and
\* with their repetitions; the n-th task submitted is a task of the n-th URL;
\* once submission is over there is exactly one task per non-blank line; and
\* the report is not built before every task has run to its end.
C5_OneTaskPerLine ==
    /\ mainpc \in {"submit", "collect", "done", "crashed"} => repos = ExpectedRepos
    /\ Len(tasks) <= Len(ExpectedRepos)
    /\ \A t \in TaskIds : tasks[t].url = ExpectedRepos[t]
    /\ mainpc \in {"collect", "done", "crashed"} => Len(tasks) = Len(ExpectedRepos)
    /\ ReportFinal => \A t \in TaskIds : Finished(t)

\* a padded URL listed twice: two tasks of the trimmed URL, whose runs differ
C5_Witness ==
    /\ file_lines = <<" u1 ", " u1 ">>
    /\ ReportFinal
    /\ Len(tasks) = 2
    /\ tasks[1].url = "u1"
    /\ tasks[2].url = "u1"
    /\ tasks[1].cloned = "failed"
    /\ tasks[2].cloned = "ok"

-----------------------------------------------------------------------------
(* C6 *)

\* C6: for gitleaks, whose output key is "Findings", the one decoded object
\* {"Findings": [{"RuleID": "X"}]} gives the list [{"RuleID": "X"}], the
\* object {"Findings": []} gives None, and an object without the key gives
\* None as well.
C6_OutputKey ==
    \A t \in TaskIds :
        (tasks[t].i = 2 /\ ToolConfig("gitleaks").output_key = PyStr("Findings")) =>
            /\ Printed(t, <<"{\"Findings\": [{\"RuleID\": \"X\"}]}">>) =>
                  /\ tasks[t].pc = "recorded"
                  /\ FindingsOf(t, "gitleaks") =
                        PyList(<<PyDict(<<Pair("RuleID", PyStr("X"))>>)>>)
            /\ Printed(t, <<"{\"Findings\": []}">>) =>
                  /\ tasks[t].pc = "recorded"
                  /\ FindingsOf(t, "gitleaks") = None
            /\ Printed(t, <<"{\"DetectorName\": \"AWS\"}">>) =>
                  /\ tasks[t].pc = "recorded"
                  /\ FindingsOf(t, "gitleaks") = None

\* gitleaks printed the object with one finding
C6_Witness ==
    \E t \in TaskIds :
        /\ tasks[t].i = 2
        /\ Printed(t, <<"{\"Findings\": [{\"RuleID\": \"X\"}]}">>)
        /\ tasks[t].pc = "recorded"
        /\ StatusOf(t, "gitleaks") = PyStr("1 findings")

-----------------------------------------------------------------------------
(* C7 *)

\* C7: a ScanResult returned with a non-null error has empty findings and
\* status maps, also when the exception came after an earlier tool of the
\* repository was recorded.
C7_ErrorLeavesMapsEmpty ==
    \A t \in TaskIds :
        (tasks[t].pc = "returned" /\ Error(tasks[t].results) # None) =>
            /\ Findings(tasks[t].results) = PyDict(<<>>)
            /\ Status(tasks[t].results) = PyDict(<<>>)

-----------------------------------------------------------------------------
(* C8 *)

\* C8: with a tool missing, main never gets past the check: the file is not
\* read, no task is submitted, no clone and no tool starts, and what is
\* printed at exit names exactly the missing tools.  With both tools present
\* the check prints nothing, changes nothing and never exits.
C8_MissingToolAborts ==
    /\ installed # ToolNames =>
          /\ mainpc \in {"check", "exit"}
          /\ repos = <<>>
          /\ tasks = <<>>
          /\ global_report = PyDict(<<>>)
          /\ mainpc = "exit" =>
                printed = PyStr(CASE installed = {} ->
                                       "<red>Missing tools: trufflehog, gitleaks"
                                  [] installed = {"gitleaks"} ->
                                       "<red>Missing tools: trufflehog"
                                  [] installed = {"trufflehog"} ->
                                       "<red>Missing tools: gitleaks")
    /\ installed = ToolNames =>
          /\ mainpc # "exit"
          /\ mainpc \in {"check", "read"} =>
                /\ printed = None
                /\ repos = <<>>
                /\ tasks = <<>>
                /\ global_report = PyDict(<<>>)

\* both tools missing and a file with a URL in it: the run has exited
C8_Witness ==
    /\ installed = {}
    /\ mainpc = "exit"
    /\ file_lines = <<"u2">>
    /\ printed = PyStr("<red>Missing tools: trufflehog, gitleaks")

-----------------------------------------------------------------------------
(* C9 *)

\* the task's URL is listed once
ListedOnce(t) == TasksOf(tasks[t].url) = {t}

\* what lines 178-181 store for the task: its ScanResult, or only the message
\* of the exception its future raised
OwnEntry(t) ==
    IF tasks[t].pc = "raised"
    THEN PyDict(<<Pair("error", PyStr(tasks[t].exc))>>)
    ELSE tasks[t].results

\* the entry of a URL listed once is absent until its task is collected and is
\* the task's own outcome from then on
C9_EntryIsOwn ==
    \A t \in TaskIds :
        ListedOnce(t) =>
            IF tasks[t].collected
            THEN /\ Cardinality(EntriesOf(tasks[t].url)) = 1
                 /\ EntryOf(tasks[t].url) = OwnEntry(t)
            ELSE EntriesOf(tasks[t].url) = {}

\* a step of one task changes no other task and no entry of another URL
C9_StepIsLocal ==
    \A t \in TaskIds :
        tasks'[t] # tasks[t] =>
            /\ \A u \in TaskIds \ {t} : tasks'[u] = tasks[u]
            /\ \A u \in TaskIds :
                  tasks[u].url # tasks[t].url =>
                      DictGet(global_report'.kv, tasks[u].url, Absent)
                          = DictGet(global_report.kv, tasks[u].url, Absent)

\* C9: whatever happens to a repository (clone failure, timeout, decode
\* failure, an exception of its task) changes neither the task nor the entry
\* of a repository with another URL; for distinct URLs every entry is the
\* outcome of its own task, every task is collected, and a task that raised
\* is entered with only an error message.
C9_FailuresStayLocal == []C9_EntryIsOwn /\ [][C9_StepIsLocal]_vars

\* two URLs, all collected: the task of one raised and is entered with only
\* its error, the other is entered with its finding
C9_Witness ==
    /\ \A t \in TaskIds : tasks[t].collected
    /\ \E t, u \in TaskIds :
          /\ tasks[t].url # tasks[u].url
          /\ tasks[t].pc = "raised"
          /\ EntryOf(tasks[t].url) = PyDict(<<Pair("error", PyStr("error in handler"))>>)
          /\ StatusOf(u, "gitleaks") = PyStr("1 findings")
          /\ EntryOf(tasks[u].url) = tasks[u].results

-----------------------------------------------------------------------------
(* C10 *)

\* no clone failed and no exception was raised in any task
NothingFailed ==
    \A t \in TaskIds :
        /\ tasks[t].cloned = "ok"
        /\ tasks[t].pc = "returned"
        /\ Error(tasks[t].results) = None

\* C10: when every clone succeeded and every subprocess ended or timed out
\* without an exception in the task, format_report does not raise: main does
\* not end with a traceback in place of the report.
C10_ReportIsRendered == NothingFailed => mainpc # "crashed"

-----------------------------------------------------------------------------
(* C11 *)

\* some tool of some collected repository timed out
SomeTimedOut ==
    \E t \in TaskIds :
        \E n \in 1..Len(TOOLS) : StatusOf(t, TOOLS[n].name) = PyStr("Timed out")

\* C11: a report that is printed for a run in which some tool of a repository
\* timed out is not the message printed when every tool was Clean.
C11_TimeoutIsShown ==
    (mainpc = "done" /\ SomeTimedOut) =>
        printed # PyStr("<green>\nNo findings across all repositories")

-----------------------------------------------------------------------------
(* C12 *)

\* the text s has sub in it
Contains(s, sub) ==
    \E n \in 1..(Len(s) - Len(sub) + 1) : SubSeq(s, n, n + Len(sub) - 1) = sub

\* the entry has a non-empty error
HasError(entry) == Truthy(DictGet(entry.kv, "error", None))

\* some tool of the entry has non-empty findings that are not "timeout"
HasFindings(entry) ==
    \E n \in 1..Len(DictGet(entry.kv, "findings", PyDict(<<>>)).kv) :
        LET found == DictGet(entry.kv, "findings", PyDict(<<>>)).kv[n].v
        IN  Truthy(found) /\ found # PyStr("timeout")

\* the URLs of global_report whose entry has an error or findings
ShownURLs ==
    {global_report.kv[n].k : n \in
        {m \in 1..Len(global_report.kv) :
            HasError(global_report.kv[m].v) \/ HasFindings(global_report.kv[m].v)}}

\* C12: for the final global_report, format_report returns; what it returns
\* is the "No findings across all repositories" message exactly when no entry
\* has an error or findings; a repository with findings has its header in the
\* text, and a repository with only Clean or timed-out tools is not in it.
C12_ReportPartition ==
    ReportFinal =>
        /\ mainpc = "done"
        /\ printed = PyStr("<green>\nNo findings across all repositories")
              <=> ShownURLs = {}
        /\ \A n \in 1..Len(global_report.kv) :
              /\ HasFindings(global_report.kv[n].v) =>
                    Contains(printed.s, "<cyan>\n" \o global_report.kv[n].k)
              /\ global_report.kv[n].k \notin ShownURLs =>
                    ~Contains(printed.s, global_report.kv[n].k)

-----------------------------------------------------------------------------
(* C13 *)

\* what became of a task: the outcome of its clone and of its tools, and how
\* it ended
Outcome(t) ==
    [cloned |-> tasks[t].cloned, pc |-> tasks[t].pc, exc |-> tasks[t].exc,
     results |-> tasks[t].results]

\* the clones and subprocesses of a URL gave the same in every task of it
SameOutcomePerURL ==
    \A t, u \in TaskIds : tasks[t].url = tasks[u].url => Outcome(t) = Outcome(u)

\* C13: when every task of a URL met the same outcomes, the final
\* global_report is fixed by the file and those outcomes alone: one entry per
\* URL of the file, each the outcome of any task of that URL, whatever the
\* order in which the tasks were run and collected.  Two such runs therefore
\* end with the same mapping.
C13_ResultIsDetermined ==
    (ReportFinal /\ SameOutcomePerURL) =>
        /\ {global_report.kv[n].k : n \in 1..Len(global_report.kv)}
              = {ExpectedRepos[n] : n \in 1..Len(ExpectedRepos)}
        /\ \A t \in TaskIds :
              /\ Cardinality(EntriesOf(tasks[t].url)) = 1
              /\ EntryOf(tasks[t].url) = OwnEntry(t)

\* a URL listed twice, both tasks ended with one gitleaks finding and are
\* entered once
C13_Witness ==
    /\ mainpc = "done"
    /\ Len(tasks) = 2
    /\ tasks[1].url = tasks[2].url
    /\ StatusOf(1, "gitleaks") = PyStr("1 findings")
    /\ Outcome(1) = Outcome(2)
    /\ EntryOf(tasks[1].url) = tasks[1].results

-----------------------------------------------------------------------------
(* C14 *)

\* a task is collected only once it has ended
C14_CollectedHasEnded ==
    \A t \in TaskIds : tasks[t].collected => Finished(t)

\* global_report changes only in a step in which main collects one ended task
\* not collected before and stores that task's outcome under its URL; a step
\* that changes what a task has done leaves global_report as it is; and a
\* collected task stays collected and is changed by no step
C14_OnlyMainWrites ==
    /\ global_report' # global_report =>
          /\ mainpc = "collect"
          /\ \E t \in TaskIds :
                /\ Finished(t)
                /\ ~tasks[t].collected
                /\ tasks' = [tasks EXCEPT ![t].collected = TRUE]
                /\ global_report' = SetItem(global_report, tasks[t].url, OwnEntry(t))
    /\ \A t \in TaskIds :
          /\ [tasks'[t] EXCEPT !.collected = FALSE] # [tasks[t] EXCEPT !.collected = FALSE]
                => global_report' = global_report
          /\ tasks[t].collected => tasks'[t] = tasks[t]

\* C14: global_report is written by main only, never by a step of a task; a
\* task's entry is stored after the task has ended, once per task, and the
\* task's ScanResult does not change after that.
C14_SingleWriter == []C14_CollectedHasEnded /\ [][C14_OnlyMainWrites]_vars

\* one task is collected and entered while another is still running a tool
C14_Witness ==
    \E t, u \in TaskIds :
        /\ tasks[t].collected
        /\ EntryOf(tasks[t].url) = tasks[t].results
        /\ tasks[u].pc = "tool"
        /\ tasks[u].url # tasks[t].url

-----------------------------------------------------------------------------
(* C15 *)

\* the tools a task has started are the first tools of the declaration, in
\* its order, started after the clone succeeded; when the task is about to
\* run its i-th tool the i-1 tools before it have started and returned, and
\* after the i-th returned exactly i have
C15_InOrder ==
    \A t \in TaskIds :
        /\ tasks[t].started # <<>> => tasks[t].cloned = "ok"
        /\ Len(tasks[t].started) <= 2
        /\ tasks[t].started = SubSeq(<<"trufflehog", "gitleaks">>, 1, Len(tasks[t].started))
        /\ tasks[t].pc \in {"queued", "clone"} => tasks[t].started = <<>>
        /\ tasks[t].pc = "tool" => Len(tasks[t].started) = tasks[t].i - 1
        /\ tasks[t].pc = "recorded" => Len(tasks[t].started) = tasks[t].i

\* a step starts at most one tool, in one task, and that task was at "tool"
C15_OneAtATime ==
    \A t \in TaskIds :
        tasks'[t].started # tasks[t].started =>
            /\ tasks[t].pc = "tool"
            /\ tasks'[t].started = Append(tasks[t].started, TOOLS[tasks[t].i].name)
            /\ \A u \in TaskIds \ {t} : tasks'[u] = tasks[u]

\* C15: in a task no tool starts before the clone has succeeded, the tools
\* start in the order trufflehog, gitleaks, each after the one before it has
\* returned, and a task is at one step at a time.
C15_Sequential == []C15_InOrder /\ [][C15_OneAtATime]_vars

\* two tasks interleave: the second is past trufflehog and about to run
\* gitleaks while the first has not finished its clone
C15_Witness ==
    /\ Len(tasks) = 2
    /\ tasks[1].pc = "clone"
    /\ tasks[2].pc = "tool"
    /\ tasks[2].i = 2
    /\ tasks[2].started = <<"trufflehog">>

-----------------------------------------------------------------------------
(* C16 *)

\* a task whose current tool timed out has recorded it and goes on without an
\* error; a task whose trufflehog timed out does not end before gitleaks was
\* started; and when gitleaks has returned it has a status of its own
C16_TaskGoesOn ==
    \A t \in TaskIds :
        /\ TimedOut(t) =>
              /\ tasks[t].pc = "recorded"
              /\ Error(tasks[t].results) = None
        /\ StatusOf(t, "trufflehog") = PyStr("Timed out") =>
              /\ Finished(t) => tasks[t].started = <<"trufflehog", "gitleaks">>
              /\ (tasks[t].pc = "recorded" /\ tasks[t].i = 2) =>
                    /\ StatusOf(t, "gitleaks") # Absent
                    /\ Error(tasks[t].results) = None

\* a step in which a tool of a task times out changes nothing but that task;
\* and a task ends only by a failed clone, by the end of the loop over TOOLS
\* with the results it had, or by an exception of the tool it was running,
\* which a timeout is not
C16_NothingIsCancelled ==
    \A t \in TaskIds :
        /\ (tasks'[t] # tasks[t] /\ tasks[t].pc = "tool" /\ tasks'[t].pc = "recorded") =>
              /\ \A u \in TaskIds \ {t} : tasks'[u] = tasks[u]
              /\ UNCHANGED <<mainpc, global_report, printed, repos>>
        /\ (~Finished(t) /\ tasks'[t].pc \in {"returned", "raised"}) =>
              \/ tasks[t].pc = "clone" /\ tasks'[t].cloned = "failed"
              \/ /\ tasks[t].pc = "recorded"
                 /\ tasks[t].i = Len(TOOLS)
                 /\ tasks'[t].results = tasks[t].results
              \/ /\ tasks[t].pc = "tool"
                 /\ tasks'[t].last.fails \/ tasks'[t].last.dur <= ToolConfig(ToolOf(t)).timeout

\* C16: a timeout of one tool ends that subprocess only: the later tool of
\* the repository is run and gets its own status, the task returns with a
\* null error, no other task is touched, and nothing cancels a task or the
\* run.
C16_TimeoutIsLocal == []C16_TaskGoesOn /\ [][C16_NothingIsCancelled]_vars

\* trufflehog timed out, gitleaks then found a leak, the task returned without
\* an error, next to a task of another repository
C16_Witness ==
    \E t, u \in TaskIds :
        /\ tasks[t].pc = "returned"
        /\ StatusOf(t, "trufflehog") = PyStr("Timed out")
        /\ StatusOf(t, "gitleaks") = PyStr("1 findings")
        /\ Error(tasks[t].results) = None
        /\ tasks[u].url # tasks[t].url
        /\ StatusOf(u, "trufflehog") = PyStr("1 findings")

-----------------------------------------------------------------------------
(* C17 *)

\* C17: a task has a temporary directory exactly while it runs; two tasks
\* that run at the same time, of the same URL or not, have different
\* directories; the directory of a task that has ended is gone, however it
\* ended; and when the report is built no temporary directory is left.
C17_TempDirs ==
    /\ \A t \in TaskIds :
          /\ Running(t) => tasks[t].tmp # 0
          /\ tasks[t].pc = "queued" => tasks[t].tmp = 0
          /\ Finished(t) => tasks[t].tmp = 0
    /\ \A t, u \in TaskIds :
          (t # u /\ Running(t) /\ Running(u)) => tasks[t].tmp # tasks[u].tmp
    /\ ReportFinal => TempDirs = {}

\* two tasks of one URL: the first ended in its handler and its directory is
\* gone, the second has recorded a timeout and has its directory
C17_Witness ==
    /\ Len(tasks) = 2
    /\ tasks[1].url = tasks[2].url
    /\ tasks[1].pc = "returned"
    /\ tasks[1].cloned = "ok"
    /\ Error(tasks[1].results) # None
    /\ tasks[1].tmp = 0
    /\ TimedOut(2)
    /\ tasks[2].pc = "recorded"
    /\ tasks[2].tmp # 0

-----------------------------------------------------------------------------
(* C18 *)

\* a tool whose stdout has a line that is not JSON is recorded with findings
\* None, whatever its other lines were, and status "Clean", and the error of
\* the repository stays None
C18_NothingIsKept ==
    \A t \in TaskIds :
        DecodeFails(t) =>
            /\ tasks[t].pc = "recorded"
            /\ FindingsOf(t, ToolOf(t)) = None
            /\ StatusOf(t, ToolOf(t)) = PyStr("Clean")
            /\ Error(tasks[t].results) = None

\* the next step of such a task runs the next tool, or returns after the last
\* one, with the results as they were
C18_TaskGoesOn ==
    \A t \in TaskIds :
        (DecodeFails(t) /\ tasks'[t] # tasks[t]) =>
            /\ tasks'[t].results = tasks[t].results
            /\ tasks'[t].pc = IF tasks[t].i < Len(TOOLS) THEN "tool" ELSE "returned"
            /\ tasks'[t].i = IF tasks[t].i < Len(TOOLS) THEN tasks[t].i + 1 ELSE tasks[t].i

\* C18: a decode failure is all-or-nothing and stays with its (repository,
\* tool) pair: run_tool returns None and drops the lines already decoded, the
\* pair is recorded "Clean", the error stays None and the remaining tools are
\* run.
C18_DecodeFailureIsLocal == []C18_NothingIsKept /\ [][C18_TaskGoesOn]_vars

\* gitleaks is about to run after trufflehog printed a finding and then a line
\* that is not JSON, of which nothing was kept
C18_Witness ==
    \E t \in TaskIds :
        /\ tasks[t].pc = "recorded"
        /\ tasks[t].i = 1
        /\ tasks[t].last = Ran(1, <<"{\"DetectorName\": \"AWS\"}", "oops">>)
        /\ FindingsOf(t, "trufflehog") = None
        /\ StatusOf(t, "trufflehog") = PyStr("Clean")

-----------------------------------------------------------------------------
(* C19 *)

\* the keys of global_report are URLs of the file, each once, and an entry is
\* the outcome of a collected task of its URL; at the end every URL of the
\* file is a key
C19_OneEntryPerURL ==
    /\ \A n \in 1..Len(global_report.kv) :
          /\ Cardinality(EntriesOf(global_report.kv[n].k)) = 1
          /\ \E t \in TasksOf(global_report.kv[n].k) :
                /\ tasks[t].collected
                /\ global_report.kv[n].v = OwnEntry(t)
    /\ ReportFinal =>
          {global_report.kv[n].k : n \in 1..Len(global_report.kv)}
              = {ExpectedRepos[n] : n \in 1..Len(ExpectedRepos)}

\* the step that collects a task makes that task's outcome the entry of its
\* URL, whatever the entry was, and no other step changes an entry: the entry
\* of a URL is the outcome of the task of that URL collected last
C19_LastCollectedWins ==
    \A t \in TaskIds :
        /\ (~tasks[t].collected /\ tasks'[t].collected) =>
              DictGet(global_report'.kv, tasks[t].url, Absent) = OwnEntry(t)
        /\ DictGet(global_report'.kv, tasks[t].url, Absent) # EntryOf(tasks[t].url) =>
              \E u \in TasksOf(tasks[t].url) : ~tasks[u].collected /\ tasks'[u].collected

\* C19: the keys of the final global_report are the distinct URLs of the
\* file, so a URL listed k times has one entry; the entry is the outcome of
\* the task of that URL that main collected last.
C19_LastWriterWins == []C19_OneEntryPerURL /\ [][C19_LastCollectedWins]_vars

\* a URL listed twice, the two tasks ended differently, and the one entry is
\* the outcome of the task submitted first, which was collected last
C19_Witness ==
    /\ ReportFinal
    /\ Len(tasks) = 2
    /\ tasks[1].url = tasks[2].url
    /\ tasks[1].cloned = "failed"
    /\ StatusOf(2, "gitleaks") = PyStr("1 findings")
    /\ Len(global_report.kv) = 1
    /\ EntryOf(tasks[1].url) = tasks[1].results

-----------------------------------------------------------------------------
(* C20 *)

\* the subprocess of the current iteration ended in time
InTime(t) ==
    /\ tasks[t].i >= 1
    /\ tasks[t].pc # "tool"
    /\ ~tasks[t].last.fails
    /\ tasks[t].last.dur = 1

\* a line of stdout on which the tool reports a finding
FindingRecords ==
    [trufflehog |-> {"{\"DetectorName\": \"AWS\"}"},
     gitleaks |-> {"{\"Findings\": [{\"RuleID\": \"X\"}]}"}]

\* C20: a tool has the status "Timed out" only if its subprocess outlived the
\* timeout, and a "{count} findings" status only if it reported a finding;
\* output that ends in time leads neither to "Timed out" nor to an error of
\* the task.
C20_StatusIsExact ==
    \A t \in TaskIds :
        tasks[t].i >= 1 =>
            /\ StatusOf(t, ToolOf(t)) = PyStr("Timed out") => TimedOut(t)
            /\ IsCount(StatusOf(t, ToolOf(t))) =>
                  \E n \in 1..Len(tasks[t].last.lines) :
                      tasks[t].last.lines[n] \in FindingRecords[ToolOf(t)]
            /\ InTime(t) =>
                  /\ tasks[t].pc = "recorded"
                  /\ Error(tasks[t].results) = None

====
